---------------------------- MODULE Spec2Model ----------------------------
(***************************************************************************)
(* Model of examples/plugins/builder-plugin-security/src/main.rs: the      *)
(* security plugin's JSON-RPC loop (main, handle_request and the three     *)
(* handlers) and its SecurityScanner (scan_dependencies,                   *)
(* scan_for_vulnerabilities, extract_dependencies, parse_dependency_line,  *)
(* check_vulnerability, generate_report).                                  *)
(*                                                                         *)
(* Text the code inspects character by character (manifest lines, package  *)
(* names, versions, paths, advisory ids) is a sequence of one-character    *)
(* strings, so that trim, split, contains, ends_with and format! are       *)
(* computed as the code computes them.  Text the code only compares or     *)
(* copies whole (severities, descriptions, method names) is a string.      *)
(***************************************************************************)
EXTENDS Integers, Sequences, FiniteSets, TLC

VARIABLES
    files,        \* the manifests on disk: path under a workspace root -> file
    report_file,  \* workspace root -> <root>/.builder-cache/security-report.json
    scanner,      \* the latest SecurityScanner: workspace_root, vulnerabilities
    sources,      \* the sources handed to its scan_dependencies
    logs,         \* the log lines its last method returned
    scans,        \* one record per SecurityScanner the pre-hook has run
    stdin_read,   \* the lines main has taken from standard input so far
    stdout,       \* the responses main has printed
    pc            \* where the program is

vars == <<files, report_file, scanner, sources, logs, scans, stdin_read, stdout, pc>>

----------------------------------------------------------------------------
(* Bounds *)

MaxSources == 2
MaxFileLines == 1
MaxLines == 2

----------------------------------------------------------------------------
(* Text *)

s_lodash == <<"l", "o", "d", "a", "s", "h">>
s_django == <<"d", "j", "a", "n", "g", "o">>
s_express == <<"e", "x", "p", "r", "e", "s", "s">>
s_requests == <<"r", "e", "q", "u", "e", "s", "t", "s">>
v_4_17_15 == <<"4", ".", "1", "7", ".", "1", "5">>
v_4_17_21 == <<"4", ".", "1", "7", ".", "2", "1">>
v_2_2_0 == <<"2", ".", "2", ".", "0">>
v_2_2_24 == <<"2", ".", "2", ".", "2", "4">>
v_4_16_0 == <<"4", ".", "1", "6", ".", "0">>
v_4_17_1 == <<"4", ".", "1", "7", ".", "1">>
v_2_25_0 == <<"2", ".", "2", "5", ".", "0">>
v_2_26_0 == <<"2", ".", "2", "6", ".", "0">>
s_eqeq == <<"=", "=">>
s_requirements_txt == <<"r", "e", "q", "u", "i", "r", "e", "m", "e", "n", "t", "s", ".", "t", "x", "t">>
s_package_json == <<"p", "a", "c", "k", "a", "g", "e", ".", "j", "s", "o", "n">>
s_Cargo_toml == <<"C", "a", "r", "g", "o", ".", "t", "o", "m", "l">>
s_go_mod == <<"g", "o", ".", "m", "o", "d">>
s_cve_prefix == <<"C", "V", "E", "-", "2", "0", "2", "1", "-">>
s_dot == <<".">>
s_ws == <<"w", "s">>
s_slash == <<"/">>
s_main_py == <<"m", "a", "i", "n", ".", "p", "y">>
s_builder_cache == <<".", "b", "u", "i", "l", "d", "e", "r", "-", "c", "a", "c", "h", "e">>
s_report_json == <<"s", "e", "c", "u", "r", "i", "t", "y", "-", "r", "e", "p", "o", "r", "t", ".", "j", "s", "o", "n">>
s_lodash_django == <<"l", "o", "d", "a", "s", "h", "-", "d", "j", "a", "n", "g", "o">>

None == [some |-> FALSE]
Some(x) == [some |-> TRUE, v |-> x]

\* str::contains: pat occurs in s as a contiguous substring.
contains(s, pat) ==
    \E i \in 1..(Len(s) - Len(pat) + 1) : SubSeq(s, i, i + Len(pat) - 1) = pat

\* str::ends_with.
ends_with(s, pat) ==
    /\ Len(pat) <= Len(s)
    /\ SubSeq(s, Len(s) - Len(pat) + 1, Len(s)) = pat

\* str::trim: leading and trailing whitespace removed.
RECURSIVE trim_start(_)
trim_start(s) ==
    IF s # <<>> /\ Head(s) = " " THEN trim_start(Tail(s)) ELSE s

RECURSIVE trim_end(_)
trim_end(s) ==
    IF s # <<>> /\ s[Len(s)] = " " THEN trim_end(SubSeq(s, 1, Len(s) - 1)) ELSE s

trim(s) == trim_end(trim_start(s))

\* str::split(pat): the pieces between the non-overlapping occurrences of
\* pat, found left to right.
RECURSIVE split(_, _)
split(s, pat) ==
    IF ~contains(s, pat)
    THEN <<s>>
    ELSE LET i == CHOOSE k \in 1..(Len(s) - Len(pat) + 1) :
                     /\ SubSeq(s, k, k + Len(pat) - 1) = pat
                     /\ \A j \in 1..(k - 1) : SubSeq(s, j, j + Len(pat) - 1) # pat
         IN  <<SubSeq(s, 1, i - 1)>> \o split(SubSeq(s, i + Len(pat), Len(s)), pat)

\* The decimal digits format!("{}") prints for an unsigned integer.
Digit(d) == <<"0", "1", "2", "3", "4", "5", "6", "7", "8", "9">>[d + 1]

RECURSIVE to_string(_)
to_string(n) ==
    IF n < 10 THEN <<Digit(n)>> ELSE to_string(n \div 10) \o <<Digit(n % 10)>>

----------------------------------------------------------------------------
(* SecurityScanner: the pure parts *)

\* The closure severity_order of scan_for_vulnerabilities.
severity_order(s) ==
    CASE s = "CRITICAL" -> 0
      [] s = "HIGH" -> 1
      [] s = "MEDIUM" -> 2
      [] s = "LOW" -> 3
      [] OTHER -> 4

\* The vec! known_vulnerable of check_vulnerability, in its order.
known_vulnerable == <<
    <<s_lodash, v_4_17_15, "HIGH", "Prototype pollution", Some(v_4_17_21)>>,
    <<s_django, v_2_2_0, "CRITICAL", "SQL injection vulnerability", Some(v_2_2_24)>>,
    <<s_express, v_4_16_0, "MEDIUM", "Open redirect vulnerability", Some(v_4_17_1)>>,
    <<s_requests, v_2_25_0, "LOW", "Information disclosure", Some(v_2_26_0)>> >>

\* The modulus of the advisory number.
IdModulus == 10000

\* rand::random::<u16>(): a u16 made of the clock's nanoseconds, here their
\* low 16 bits.
random_u16(nanos) == nanos % (2 ^ 16)

\* check_vulnerability: the first table entry whose name occurs in the
\* package name and whose version is the version; its id is made from the
\* clock reading nanos.
check_vulnerability(package, version, nanos) ==
    LET hits == {i \in 1..Len(known_vulnerable) :
                    /\ contains(package, known_vulnerable[i][1])
                    /\ version = known_vulnerable[i][2]}
    IN  IF hits = {}
        THEN None
        ELSE LET e == known_vulnerable[CHOOSE i \in hits : \A j \in hits : i <= j]
             IN  Some([id |-> s_cve_prefix \o to_string(random_u16(nanos) % IdModulus),
                       severity |-> e[3],
                       package |-> package,
                       version |-> version,
                       description |-> e[4],
                       fixed_in |-> e[5]])

\* parse_dependency_line: an exact pin name==version, or nothing.
parse_dependency_line(line) ==
    LET l == trim(line)
        parts == split(l, s_eqeq)
    IN  IF contains(l, s_eqeq) /\ Len(parts) = 2
        THEN Some(<<parts[1], parts[2]>>)
        ELSE None


\* Path::join of a relative path onto a directory.
join(dir, path) == dir \o s_slash \o path

\* extract_dependencies: the pins of the manifest file_path under the
\* workspace root, in line order; nothing when the file does not exist or
\* cannot be read.  A file's text is held as the lines content.lines() gives.
\* As parse_lines, but the first line that is no pin ends the file.
RECURSIVE parse_lines_stopping(_)
parse_lines_stopping(lines) ==
    IF lines = <<>>
    THEN <<>>
    ELSE LET d == parse_dependency_line(Head(lines))
         IN  IF d.some THEN <<d.v>> \o parse_lines_stopping(Tail(lines)) ELSE <<>>

RECURSIVE parse_lines(_)
parse_lines(lines) ==
    IF lines = <<>>
    THEN <<>>
    ELSE LET d == parse_dependency_line(Head(lines))
         IN  (IF d.some THEN <<d.v>> ELSE <<>>) \o parse_lines(Tail(lines))

extract_dependencies(workspace_root, file_path, fs) ==
    LET path == join(workspace_root, file_path)
    IN  IF ~(path \in DOMAIN fs /\ fs[path].kind # "missing")
        THEN <<>>
        ELSE IF fs[path].kind = "text"
             THEN parse_lines(fs[path].lines)
             ELSE <<>>

\* The test of scan_for_vulnerabilities on a source's name.
is_manifest(source) ==
    \/ ends_with(source, s_requirements_txt)
    \/ ends_with(source, s_package_json)
    \/ ends_with(source, s_Cargo_toml)
    \/ ends_with(source, s_go_mod)

\* The dependencies the loop of scan_for_vulnerabilities checks, in the
\* order it checks them.
RECURSIVE scanned_dependencies(_, _, _)
scanned_dependencies(workspace_root, srcs, fs) ==
    IF srcs = <<>>
    THEN <<>>
    ELSE (IF is_manifest(Head(srcs))
          THEN extract_dependencies(workspace_root, Head(srcs), fs)
          ELSE <<>>)
         \o scanned_dependencies(workspace_root, Tail(srcs), fs)

\* The inner loop of scan_for_vulnerabilities: each match is pushed; clock
\* holds the clock readings of the successive calls of rand::random, one
\* per match (with none left, the reading is 0: clock_reads counts so).
RECURSIVE check_all(_, _)
check_all(deps, clock) ==
    IF deps = <<>>
    THEN <<>>
    ELSE LET hit == check_vulnerability(Head(deps)[1], Head(deps)[2],
                                        IF clock = <<>> THEN 0 ELSE Head(clock))
         IN  IF hit.some
             THEN <<hit.v>> \o check_all(Tail(deps), IF clock = <<>> THEN clock ELSE Tail(clock))
             ELSE check_all(Tail(deps), clock)

\* Vec::sort_by with the severity comparison: a stable sort, so matches of
\* one severity keep the order in which they were pushed.
RECURSIVE insert_by_severity(_, _)
insert_by_severity(sorted, v) ==
    IF sorted = <<>>
    THEN <<v>>
    ELSE LET last == sorted[Len(sorted)]
         IN  IF severity_order(last.severity) <= severity_order(v.severity)
             THEN Append(sorted, v)
             ELSE Append(insert_by_severity(SubSeq(sorted, 1, Len(sorted) - 1), v), last)

RECURSIVE sort_by_severity(_)
sort_by_severity(vs) ==
    IF vs = <<>>
    THEN <<>>
    ELSE insert_by_severity(sort_by_severity(SubSeq(vs, 1, Len(vs) - 1)), vs[Len(vs)])

scan_for_vulnerabilities(workspace_root, srcs, fs, clock) ==
    sort_by_severity(check_all(scanned_dependencies(workspace_root, srcs, fs), clock))

\* How many times a scan of srcs reads the clock: once per match.
clock_reads(workspace_root, srcs, fs) ==
    Len(check_all(scanned_dependencies(workspace_root, srcs, fs), <<>>))

\* SecurityScanner::new.
new_scanner(workspace_root) ==
    [workspace_root |-> workspace_root, vulnerabilities |-> <<>>]

count_severity(vs, s) == Cardinality({i \in 1..Len(vs) : vs[i].severity = s})

RECURSIVE top_logs(_, _)
top_logs(vs, i) ==
    IF i > Len(vs) \/ i > 5
    THEN <<>>
    ELSE <<[tag |-> "top", i |-> i, id |-> vs[i].id,
            package |-> vs[i].package, severity |-> vs[i].severity]>>
         \o (IF vs[i].fixed_in.some
             THEN <<[tag |-> "fixed_in", version |-> vs[i].fixed_in.v]>>
             ELSE <<>>)
         \o top_logs(vs, i + 1)

\* The log lines of scan_dependencies, given what the scan found.
count_log(tag, n) == IF n > 0 THEN <<[tag |-> tag, n |-> n]>> ELSE <<>>

scan_logs(srcs, found) ==
    <<[tag |-> "starting"], [tag |-> "scanning", n |-> Len(srcs)]>>
    \o (IF found = <<>>
        THEN <<[tag |-> "none_found"]>>
        ELSE <<[tag |-> "found", n |-> Len(found)]>>
             \o count_log("critical", count_severity(found, "CRITICAL"))
             \o count_log("high", count_severity(found, "HIGH"))
             \o count_log("medium", count_severity(found, "MEDIUM"))
             \o count_log("low", count_severity(found, "LOW"))
             \o <<[tag |-> "top_header"]>> \o top_logs(found, 1))

\* The end of scan_dependencies: found becomes the scanner's matches.
scanned(self, srcs, found) ==
    [self |-> [self EXCEPT !.vulnerabilities = found], logs |-> scan_logs(srcs, found)]

\* scan_dependencies: the scanner after the scan, and the log lines returned.
scan_dependencies(self, srcs, fs, clock) ==
    scanned(self, srcs, scan_for_vulnerabilities(self.workspace_root, srcs, fs, clock))

\* As updates_of, but with the matched version in place of fixed_in.
updates_of_matched_version(vs) ==
    LET with_fix == {i \in 1..Len(vs) : vs[i].fixed_in.some}
        first(p) == CHOOSE i \in with_fix :
                        /\ vs[i].package = p
                        /\ \A j \in with_fix : vs[j].package = p => i <= j
    IN  [p \in {vs[i].package : i \in with_fix} |-> vs[first(p)].version]

\* The HashMap updates of generate_report: entry().or_insert_with keeps, for
\* each package, the fixed_in of its first match that has one.
updates_of(vs) ==
    LET with_fix == {i \in 1..Len(vs) : vs[i].fixed_in.some}
        first(p) == CHOOSE i \in with_fix :
                        /\ vs[i].package = p
                        /\ \A j \in with_fix : vs[j].package = p => i <= j
    IN  [p \in {vs[i].package : i \in with_fix} |-> vs[first(p)].fixed_in.v]

\* The orders in which a HashMap with these keys may be iterated.
iteration_orders(keys) ==
    {o \in [1..Cardinality(keys) -> keys] : \A i, j \in DOMAIN o : o[i] = o[j] => i = j}

\* What the ignored results of create_dir_all and write may have been.
WriteOutcomes == {"ok", "failed", "truncated"}

report_path(workspace_root) ==
    join(join(workspace_root, s_builder_cache), s_report_json)

\* The log lines of generate_report for a scanner with matches; updates is
\* its HashMap and order the order in which the loop over it runs.
report_logs(self, updates, order) ==
    <<[tag |-> "report_header"],
      [tag |-> "total", n |-> Len(self.vulnerabilities)],
      [tag |-> "recommendations"]>>
    \o (IF DOMAIN updates # {}
        THEN <<[tag |-> "update_header"]>>
             \o [i \in 1..Len(order) |->
                   [tag |-> "update", package |-> order[i], version |-> updates[order[i]]]]
        ELSE <<>>)
    \o <<[tag |-> "saved", path |-> report_path(self.workspace_root)]>>

\* The report file after create_dir_all and write, whose results are dropped.
written(self, file, outcome) ==
    CASE outcome = "ok" -> [kind |-> "json", vulnerabilities |-> self.vulnerabilities]
      [] outcome = "truncated" -> [kind |-> "partial"]
      [] OTHER -> file

\* As generate_report, but without the early return of a scanner that has
\* no match.
generate_report_always_writing(self, file, order, outcome) ==
    [logs |-> report_logs(self, updates_of(self.vulnerabilities), order),
     file |-> written(self, file, outcome),
     write |-> outcome]

\* generate_report: the log lines returned, and the report file afterwards
\* (file is the report file before the call); order is the iteration order
\* of updates, outcome the outcome of the write.
generate_report(self, file, order, outcome) ==
    IF self.vulnerabilities = <<>>
    THEN [logs |-> <<[tag |-> "report_header"], [tag |-> "no_vulnerabilities"]>>,
          file |-> file,
          write |-> "none"]
    ELSE [logs |-> report_logs(self, updates_of(self.vulnerabilities), order),
          file |-> written(self, file, outcome),
          write |-> outcome]

----------------------------------------------------------------------------
(* The scanner on its own: one SecurityScanner, one scan, one report *)

l_lodash == <<"l", "o", "d", "a", "s", "h", "=", "=", "4", ".", "1", "7", ".", "1", "5">>
l_django == <<" ", "d", "j", "a", "n", "g", "o", "=", "=", "2", ".", "2", ".", "0", " ">>
l_both_high == <<"l", "o", "d", "a", "s", "h", "-", "d", "j", "a", "n", "g", "o", "=", "=", "4", ".", "1", "7", ".", "1", "5">>
l_both_crit == <<"l", "o", "d", "a", "s", "h", "-", "d", "j", "a", "n", "g", "o", "=", "=", "2", ".", "2", ".", "0">>
l_fixed == <<"l", "o", "d", "a", "s", "h", "=", "=", "4", ".", "1", "7", ".", "2", "1">>
l_no_pin == <<"l", "o", "d", "a", "s", "h">>
l_two_pins == <<"l", "o", "d", "a", "s", "h", "=", "=", "4", ".", "1", "7", ".", "1", "5", "=", "=">>

\* Manifest lines: pins the table knows (one of them padded with blanks),
\* pins of a package whose name holds two table names, a pin of a fixed
\* version, and two lines that are no exact pin.
SampleLines ==
    {l_lodash, l_django, l_both_high, l_both_crit, l_fixed, l_no_pin, l_two_pins}

\* Clock readings: the second one exceeds 16 bits.
ClockSamples == {10010, 65545}

Roots == {s_dot, s_ws}
SourceNames == {s_requirements_txt, s_package_json, s_main_py}
AllPaths == {join(r, p) : r \in Roots, p \in SourceNames}

SeqsUpTo(S, n) == UNION {[1..k -> S] : k \in 0..n}

Missing == [kind |-> "missing"]
Unreadable == [kind |-> "unreadable"]
Text(lines) == [kind |-> "text", lines |-> lines]
Absent == [kind |-> "absent"]

\* File systems for the scan of the workspace root ".": requirements.txt is
\* missing, unreadable or any text within the bound; package.json is
\* missing or holds a line that is no pin and then a pin; main.py, which is
\* no manifest, pins django.
ScanFileSystems ==
    {[path \in AllPaths |->
         CASE path = join(s_dot, s_requirements_txt) -> req
           [] path = join(s_dot, s_package_json) -> pkg
           [] path = join(s_dot, s_main_py) -> Text(<<l_django>>)
           [] OTHER -> Missing] :
        req \in {Missing, Unreadable} \cup {Text(ls) : ls \in SeqsUpTo(SampleLines, MaxFileLines)},
        pkg \in {Missing, Text(<<l_no_pin, l_both_high>>)}}

InitScan ==
    /\ files \in ScanFileSystems
    /\ sources \in SeqsUpTo(SourceNames, MaxSources)
    /\ scanner = new_scanner(s_dot)
    /\ report_file = [r \in Roots |-> Absent]
    /\ logs = <<>>
    /\ scans = <<>>
    /\ stdin_read = <<>>
    /\ stdout = <<>>
    /\ pc = "new"

ScanDependencies ==
    /\ pc = "new"
    /\ \E clock \in [1..clock_reads(scanner.workspace_root, sources, files) -> ClockSamples] :
          LET r == scan_dependencies(scanner, sources, files, clock)
          IN  /\ scanner' = r.self
              /\ logs' = r.logs
    /\ pc' = "scanned"
    /\ UNCHANGED <<files, report_file, sources, scans, stdin_read, stdout>>

GenerateReport ==
    /\ pc = "scanned"
    /\ \E order \in iteration_orders(DOMAIN updates_of(scanner.vulnerabilities)),
          outcome \in WriteOutcomes :
          LET r == generate_report(scanner, report_file[scanner.workspace_root], order, outcome)
          IN  /\ logs' = r.logs
              /\ report_file' = [report_file EXCEPT ![scanner.workspace_root] = r.file]
    /\ pc' = "reported"
    /\ UNCHANGED <<files, scanner, sources, scans, stdin_read, stdout>>

NextScan == ScanDependencies \/ GenerateReport

SpecScan == InitScan /\ [][NextScan]_vars

----------------------------------------------------------------------------
(* The JSON-RPC side: serde_json values, handle_request and the handlers *)

JNull == [t |-> "null"]
JInt(n) == [t |-> "int", n |-> n]
JStr(s) == [t |-> "string", s |-> s]
JArr(items) == [t |-> "array", items |-> items]
JObj(fields) == [t |-> "object", fields |-> fields]

\* Value::get with a string key: the member of an object, if it has it.
get(value, key) ==
    IF value.t = "object" /\ key \in DOMAIN value.fields
    THEN Some(value.fields[key])
    ELSE None

\* Value's Index: Null where get finds nothing.
index(value, key) ==
    IF get(value, key).some THEN get(value, key).v ELSE JNull

as_str(value) == IF value.t = "string" THEN Some(value.s) ELSE None
as_i64(value) == IF value.t = "int" THEN Some(value.n) ELSE None
as_array(value) == IF value.t = "array" THEN Some(value.items) ELSE None

unwrap_or(opt, default) == IF opt.some THEN opt.v ELSE default

\* The plugin.info result.
plugin_info ==
    [name |-> "security", version |-> "1.0.0", author |-> "Griffin",
     description |-> "Dependency vulnerability scanner",
     homepage |-> "https://github.com/GriffinCanCode/Builder",
     capabilities |-> <<"build.pre_hook", "build.post_hook">>,
     minBuilderVersion |-> "1.0.0", license |-> "MIT"]

handle_info(id) ==
    [jsonrpc |-> "2.0", id |-> id, result |-> plugin_info]

handle_post_hook(id, params) ==
    [jsonrpc |-> "2.0", id |-> id,
     result |-> [success |-> TRUE,
                 logs |-> <<[tag |-> "post_build_complete"], [tag |-> "artifacts_saved"]>>]]

\* As error_response, but with the code of "Invalid Request".
error_response_invalid_request(id, code, message) ==
    [jsonrpc |-> "2.0", id |-> id, error |-> [code |-> -32600, message |-> message]]

error_response(id, code, message) ==
    [jsonrpc |-> "2.0", id |-> id, error |-> [code |-> code, message |-> message]]

\* The code of "Method not found".
MethodNotFoundCode == -32601

\* The strings of a JSON array, the other items dropped (filter_map).
RECURSIVE strings_of(_)
strings_of(items) ==
    IF items = <<>>
    THEN <<>>
    ELSE (IF as_str(Head(items)).some THEN <<as_str(Head(items)).v>> ELSE <<>>)
         \o strings_of(Tail(items))

\* What handle_pre_hook reads from params: the sources and the workspace
\* root of the scan, or nothing when params, target or workspace is absent.
sources_of(target) ==
    IF get(target, "sources").some /\ as_array(get(target, "sources").v).some
    THEN strings_of(as_array(get(target, "sources").v).v)
    ELSE <<>>

workspace_root_of(workspace) ==
    IF get(workspace, "root").some
    THEN unwrap_or(as_str(get(workspace, "root").v), s_dot)
    ELSE s_dot

scan_arguments(params) ==
    IF params.some /\ get(params.v, "target").some /\ get(params.v, "workspace").some
    THEN Some([sources |-> sources_of(get(params.v, "target").v),
               workspace_root |-> workspace_root_of(get(params.v, "workspace").v)])
    ELSE None

\* The response of handle_pre_hook.
pre_hook_response(id, scan_logs_, report_logs_) ==
    [jsonrpc |-> "2.0", id |-> id,
     result |-> [success |-> TRUE,
                 logs |-> <<[tag |-> "initializing"]>> \o scan_logs_ \o report_logs_]]

\* handle_pre_hook once the scanner has scanned and reported.
pre_hook_reported(id, args, fs, reports, scan, report) ==
    [response |-> pre_hook_response(id, scan.logs, report.logs),
     reports |-> [reports EXCEPT ![args.workspace_root] = report.file],
     scan |-> Some([scanner |-> scan.self,
                    sources |-> args.sources,
                    dependencies |-> scanned_dependencies(args.workspace_root, args.sources, fs),
                    logs |-> report.logs,
                    write |-> report.write])]

\* handle_pre_hook once the scanner has scanned.
pre_hook_scanned(id, args, fs, reports, scan, order, outcome) ==
    pre_hook_reported(id, args, fs, reports, scan,
                      generate_report(scan.self, reports[args.workspace_root], order, outcome))

\* handle_pre_hook once params have been read.
pre_hook_with(id, args, fs, reports, clock, order, outcome) ==
    IF ~args.some
    THEN [response |-> pre_hook_response(id, <<>>, <<>>), reports |-> reports, scan |-> None]
    ELSE pre_hook_scanned(id, args.v, fs, reports,
                          scan_dependencies(new_scanner(args.v.workspace_root),
                                            args.v.sources, fs, clock),
                          order, outcome)

\* handle_pre_hook: the response, what became of the report files, and the
\* scanner it ran (if it ran one).  clock, order and outcome are what the
\* scan finds in its environment.
handle_pre_hook(id, params, fs, reports, clock, order, outcome) ==
    pre_hook_with(id, scan_arguments(params), fs, reports, clock, order, outcome)

\* The method and the id handle_request reads from a request.
method_of(request) == unwrap_or(as_str(index(request, "method")), "")
id_of(request) == unwrap_or(as_i64(index(request, "id")), 0)

\* A handler that touches no file and runs no scanner.
pure(response, reports) == [response |-> response, reports |-> reports, scan |-> None]

dispatch(method, id, params, fs, reports, clock, order, outcome) ==
    CASE method = "plugin.info" -> pure(handle_info(id), reports)
      [] method = "build.pre_hook" ->
            handle_pre_hook(id, params, fs, reports, clock, order, outcome)
      [] method = "build.post_hook" -> pure(handle_post_hook(id, params), reports)
      [] OTHER -> pure(error_response(id, MethodNotFoundCode, "Method not found"), reports)

handle_request(request, fs, reports, clock, order, outcome) ==
    dispatch(method_of(request), id_of(request), get(request, "params"),
             fs, reports, clock, order, outcome)

----------------------------------------------------------------------------
(* main: the loop over the lines of standard input *)

ReadErrorLine == [kind |-> "read_error"]
Line(parsed) == [kind |-> "line", parsed |-> parsed]

Object1(k1, v1) == JObj(k1 :> v1)
Object2(k1, v1, k2, v2) == JObj(k1 :> v1 @@ k2 :> v2)
Object3(k1, v1, k2, v2, k3, v3) == JObj(k1 :> v1 @@ k2 :> v2 @@ k3 :> v3)

PreHook(id, params) == Object3("method", JStr("build.pre_hook"), "id", id, "params", params)
Target(srcs) == Object1("sources", srcs)

\* Requests: each known method, an unknown one, a value that is no object;
\* pre-hooks without params, without workspace, with the default root (no
\* root, a root that is no string) and with the root "ws"; sources that
\* hold a manifest, none, an item that is no string, or are no array.
SampleRequests ==
    {Object2("method", JStr("plugin.info"), "id", JInt(1)),
     Object3("method", JStr("build.post_hook"), "id", JInt(2), "params", JNull),
     Object2("method", JStr("build.clean"), "id", JInt(3)),
     JInt(5),
     Object2("method", JStr("build.pre_hook"), "id", JInt(4)),
     PreHook(JStr("x"), Object1("target", Target(JArr(<<JStr(s_requirements_txt)>>)))),
     PreHook(JInt(5), Object2("target", Target(JArr(<<JStr(s_requirements_txt)>>)),
                              "workspace", JObj(<<>>))),
     PreHook(JInt(6), Object2("target", Target(JArr(<<JStr(s_package_json)>>)),
                              "workspace", Object1("root", JInt(0)))),
     PreHook(JInt(7), Object2("target", Target(JArr(<<JInt(1), JStr(s_main_py),
                                                      JStr(s_requirements_txt)>>)),
                              "workspace", Object1("root", JStr(s_ws)))),
     PreHook(JInt(8), Object2("target", Target(JStr(s_requirements_txt)),
                              "workspace", Object1("root", JStr(s_ws))))}

\* The manifests of the two workspaces while the plugin runs.
MainFileSystem ==
    [path \in AllPaths |->
        CASE path = join(s_dot, s_requirements_txt) -> Text(<<l_lodash>>)
          [] path = join(s_dot, s_package_json) -> Text(<<l_fixed>>)
          [] path = join(s_ws, s_requirements_txt) -> Text(<<l_django, l_no_pin>>)
          [] path = join(s_ws, s_main_py) -> Text(<<l_lodash>>)
          [] OTHER -> Missing]

Init ==
    /\ files = MainFileSystem
    /\ report_file = [r \in Roots |-> Absent]
    /\ scanner = None
    /\ sources = <<>>
    /\ logs = <<>>
    /\ scans = <<>>
    /\ stdin_read = <<>>
    /\ stdout = <<>>
    /\ pc = "loop"

\* One turn of the loop on a line that parses as request: r is what
\* handle_request returned, and its response is printed.
Answer(request, r) ==
    /\ pc = "loop"
    /\ Len(stdin_read) < MaxLines
    /\ stdin_read' = Append(stdin_read, Line(Some(request)))
    /\ stdout' = Append(stdout, r.response)
    /\ report_file' = r.reports
    /\ IF r.scan.some
       THEN /\ scanner' = r.scan.v.scanner
            /\ sources' = r.scan.v.sources
            /\ logs' = r.scan.v.logs
            /\ scans' = Append(scans, [scanner |-> r.scan.v.scanner,
                                       sources |-> r.scan.v.sources,
                                       dependencies |-> r.scan.v.dependencies,
                                       write |-> r.scan.v.write,
                                       response |-> Len(stdout) + 1])
       ELSE UNCHANGED <<scanner, sources, logs, scans>>
    /\ UNCHANGED <<files, pc>>

Respond(request, clock, order, outcome) ==
    Answer(request, handle_request(request, files, report_file, clock, order, outcome))

\* The Err arm of the outer match: the line could not be read.
ReadError ==
    /\ pc = "loop"
    /\ Len(stdin_read) < MaxLines
    /\ stdin_read' = Append(stdin_read, ReadErrorLine)
    /\ UNCHANGED <<files, report_file, scanner, sources, logs, scans, stdout, pc>>

\* As ParseError, but answering the line with an error response.
ParseErrorAnswered ==
    /\ pc = "loop"
    /\ Len(stdin_read) < MaxLines
    /\ stdin_read' = Append(stdin_read, Line(None))
    /\ stdout' = Append(stdout, error_response(0, -32700, "Parse error"))
    /\ UNCHANGED <<files, report_file, scanner, sources, logs, scans, pc>>

\* The Err arm of the inner match: the line is no JSON.
ParseError ==
    /\ pc = "loop"
    /\ Len(stdin_read) < MaxLines
    /\ stdin_read' = Append(stdin_read, Line(None))
    /\ UNCHANGED <<files, report_file, scanner, sources, logs, scans, stdout, pc>>

HandleInfo ==
    \E request \in SampleRequests :
        /\ method_of(request) = "plugin.info"
        /\ Respond(request, <<>>, <<>>, "ok")

HandlePostHook ==
    \E request \in SampleRequests :
        /\ method_of(request) = "build.post_hook"
        /\ Respond(request, <<>>, <<>>, "ok")

MethodNotFound ==
    \E request \in SampleRequests :
        /\ method_of(request) \notin {"plugin.info", "build.pre_hook", "build.post_hook"}
        /\ Respond(request, <<>>, <<>>, "ok")

\* The scans a pre-hook request may run here: the clock readings, the
\* iteration order and the write's outcome.
PreHookScan(request, args) ==
    \E clock \in [1..clock_reads(args.workspace_root, args.sources, files) -> ClockSamples] :
        \E order \in iteration_orders(DOMAIN updates_of(
                         scan_for_vulnerabilities(args.workspace_root, args.sources,
                                                  files, clock))),
           outcome \in WriteOutcomes :
            Respond(request, clock, order, outcome)

HandlePreHook ==
    \E request \in SampleRequests :
        /\ method_of(request) = "build.pre_hook"
        /\ IF scan_arguments(get(request, "params")).some
           THEN PreHookScan(request, scan_arguments(get(request, "params")).v)
           ELSE Respond(request, <<>>, <<>>, "ok")

EndOfInput ==
    /\ pc = "loop"
    /\ pc' = "done"
    /\ UNCHANGED <<files, report_file, scanner, sources, logs, scans, stdin_read, stdout>>

Next ==
    \/ ReadError
    \/ ParseError
    \/ HandleInfo
    \/ HandlePreHook
    \/ HandlePostHook
    \/ MethodNotFound
    \/ EndOfInput

Spec == Init /\ [][Next]_vars

----------------------------------------------------------------------------
(* Properties of one scan and its report, under SpecScan *)

\* The characters of the model's text, in code-point order.
CodePoints ==
    <<" ", "-", ".", "/", "0", "1", "2", "3", "4", "5", "6", "7", "8", "9", "=",
      "C", "E", "V", "a", "b", "c", "d", "e", "g", "h", "i", "j", "k", "l", "m",
      "n", "o", "p", "q", "r", "s", "t", "u", "w", "x", "y">>

CodePoint(c) == CHOOSE i \in DOMAIN CodePoints : CodePoints[i] = c

\* a <= b in the lexicographic order of strings.
RECURSIVE LexLeq(_, _)
LexLeq(a, b) ==
    IF a = <<>> THEN TRUE
    ELSE IF b = <<>> THEN FALSE
    ELSE IF Head(a) = Head(b) THEN LexLeq(Tail(a), Tail(b))
    ELSE CodePoint(Head(a)) < CodePoint(Head(b))

\* The order the claim gives to matches: severity rank, then package name,
\* then advisory id.
RankedLeq(a, b) ==
    \/ severity_order(a.severity) < severity_order(b.severity)
    \/ /\ severity_order(a.severity) = severity_order(b.severity)
       /\ \/ a.package # b.package /\ LexLeq(a.package, b.package)
          \/ a.package = b.package /\ LexLeq(a.id, b.id)

Scanned == pc \in {"scanned", "reported"}

\* C1: after a scan, the matches are in the order of severity rank, then
\* package name, then advisory id.
C1_SortedWithTieBreaks ==
    Scanned =>
        \A i \in 1..(Len(scanner.vulnerabilities) - 1) :
            RankedLeq(scanner.vulnerabilities[i], scanner.vulnerabilities[i + 1])

\* The number a run of decimal digits denotes.
RECURSIVE parse_number(_)
parse_number(digits) ==
    IF digits = <<>>
    THEN 0
    ELSE 10 * parse_number(SubSeq(digits, 1, Len(digits) - 1))
         + (CHOOSE d \in 0..9 : Digit(d) = digits[Len(digits)])

\* A version as its numeric components: "4.17.21" is <<4, 17, 21>>.
SemVer(version) ==
    [i \in DOMAIN split(version, s_dot) |-> parse_number(split(version, s_dot)[i])]

\* a <= b in semantic-version order: component by component, numerically.
RECURSIVE SemVerLeq(_, _)
SemVerLeq(a, b) ==
    IF a = <<>> THEN TRUE
    ELSE IF b = <<>> THEN FALSE
    ELSE IF Head(a) = Head(b) THEN SemVerLeq(Tail(a), Tail(b))
    ELSE Head(a) < Head(b)

\* The fixed_in versions of the matches of package p.
FixedIn(p) ==
    {scanner.vulnerabilities[i].fixed_in.v :
        i \in {j \in 1..Len(scanner.vulnerabilities) :
                  /\ scanner.vulnerabilities[j].package = p
                  /\ scanner.vulnerabilities[j].fixed_in.some}}

\* The recommendations the report logged: <<package, version>> pairs.
Recommended ==
    {<<logs[i].package, logs[i].version>> :
        i \in {j \in 1..Len(logs) : logs[j].tag = "update"}}

MatchedPackages ==
    {scanner.vulnerabilities[i].package : i \in 1..Len(scanner.vulnerabilities)}

\* C2: the report recommends, for each package with a fixed_in match, the
\* greatest fixed_in of its matches in semantic-version order, and nothing
\* for any other package.
C2_RecommendsGreatestFixedIn ==
    pc = "reported" =>
        /\ \A r \in Recommended :
              /\ r[2] \in FixedIn(r[1])
              /\ \A v \in FixedIn(r[1]) : SemVerLeq(SemVer(v), SemVer(r[2]))
        /\ \A p \in MatchedPackages :
              FixedIn(p) # {} <=> \E r \in Recommended : r[1] = p

TableNames == {known_vulnerable[i][1] : i \in DOMAIN known_vulnerable}

\* C3: a dependency whose package name is not a name of the table is never
\* matched.
C3_OnlyTableNamesMatch ==
    Scanned => \A p \in MatchedPackages : p \in TableNames

\* C4: a scan whose only dependency is lodash 4.17.15 finds exactly one
\* match, HIGH, of lodash, and the report recommends lodash 4.17.21 and
\* nothing else.
OnlyLodash ==
    scanned_dependencies(scanner.workspace_root, sources, files) = <<<<s_lodash, v_4_17_15>>>>

C4_LodashExample ==
    /\ Scanned /\ OnlyLodash =>
          /\ Len(scanner.vulnerabilities) = 1
          /\ scanner.vulnerabilities[1].severity = "HIGH"
          /\ scanner.vulnerabilities[1].package = s_lodash
    /\ pc = "reported" /\ OnlyLodash => Recommended = {<<s_lodash, v_4_17_21>>}

C4_Witness ==
    /\ pc = "reported"
    /\ OnlyLodash
    /\ sources = <<s_requirements_txt>>
    /\ files[join(s_dot, s_requirements_txt)] = Text(<<l_lodash>>)
    /\ Len(scanner.vulnerabilities) = 1

\* The number of non-overlapping occurrences of pat in s, left to right.
RECURSIVE Occurrences(_, _)
Occurrences(s, pat) ==
    IF Len(s) < Len(pat) THEN 0
    ELSE IF SubSeq(s, 1, Len(pat)) = pat
         THEN 1 + Occurrences(SubSeq(s, Len(pat) + 1, Len(s)), pat)
         ELSE Occurrences(Tail(s), pat)

\* A well-formed exact pin: one "==" separator; and the pin it declares.
WellFormed(line) == Occurrences(trim(line), s_eqeq) = 1

PinOf(line) ==
    LET l == trim(line)
        at == CHOOSE k \in 1..(Len(l) - 1) : SubSeq(l, k, k + 1) = s_eqeq
    IN  <<SubSeq(l, 1, at - 1), SubSeq(l, at + 2, Len(l))>>

RECURSIVE PinsOf(_)
PinsOf(lines) ==
    IF lines = <<>> THEN <<>>
    ELSE (IF WellFormed(Head(lines)) THEN <<PinOf(Head(lines))>> ELSE <<>>)
         \o PinsOf(Tail(lines))

Readable(source) ==
    /\ is_manifest(source)
    /\ files[join(scanner.workspace_root, source)].kind = "text"

\* The well-formed entries of the readable manifests among srcs, in order.
RECURSIVE GoodEntries(_)
GoodEntries(srcs) ==
    IF srcs = <<>> THEN <<>>
    ELSE (IF Readable(Head(srcs))
          THEN PinsOf(files[join(scanner.workspace_root, Head(srcs))].lines)
          ELSE <<>>)
         \o GoodEntries(Tail(srcs))

WithoutIds(vs) == [i \in DOMAIN vs |-> [vs[i] EXCEPT !.id = <<>>]]

\* C6: the matches of a scan are the matches of the well-formed entries of
\* its readable manifests: a missing or unreadable manifest and a line that
\* is no exact pin contribute nothing and stop nothing.
C6_FailuresSkipped ==
    Scanned =>
        WithoutIds(scanner.vulnerabilities)
            = WithoutIds(sort_by_severity(check_all(GoodEntries(sources), <<>>)))

C6_Witness ==
    /\ pc = "scanned"
    /\ sources = <<s_requirements_txt, s_package_json>>
    /\ files[join(s_dot, s_requirements_txt)].kind \in {"missing", "unreadable"}
    /\ files[join(s_dot, s_package_json)] = Text(<<l_no_pin, l_both_high>>)
    /\ Len(scanner.vulnerabilities) = 1
    /\ scanner.vulnerabilities[1].package = s_lodash_django

----------------------------------------------------------------------------
(* Properties of the plugin's run, under Spec *)

\* The requests among the lines read, in order.
ParsedRequests ==
    LET parsed == SelectSeq(stdin_read, LAMBDA l : l.kind = "line" /\ l.parsed.some)
    IN  [k \in DOMAIN parsed |-> parsed[k].parsed.v]

\* The integer id and the method a request carries, read off the JSON.
ExpectedId(request) ==
    IF request.t = "object" /\ "id" \in DOMAIN request.fields
       /\ request.fields["id"].t = "int"
    THEN request.fields["id"].n
    ELSE 0

ExpectedMethod(request) ==
    IF request.t = "object" /\ "method" \in DOMAIN request.fields
       /\ request.fields["method"].t = "string"
    THEN request.fields["method"].s
    ELSE ""

KnownMethods == {"plugin.info", "build.pre_hook", "build.post_hook"}

LogTags(response) ==
    {response.result.logs[i].tag : i \in DOMAIN response.result.logs}

\* C5: a scan whose report could not be written answers with the failure,
\* not with a saved report, and still with its matches.
C5_WriteFailureSurfaced ==
    \A k \in DOMAIN scans :
        scans[k].write \in {"failed", "truncated"} =>
            /\ "saved" \notin LogTags(stdout[scans[k].response])
            /\ ~stdout[scans[k].response].result.success
            /\ "top" \in LogTags(stdout[scans[k].response])

\* C7: two scans of the same dependencies give a match of the same package
\* and version the same advisory id.
C7_SameIdAcrossScans ==
    \A j, k \in DOMAIN scans :
        scans[j].dependencies = scans[k].dependencies =>
            \A a \in DOMAIN scans[j].scanner.vulnerabilities :
                \A b \in DOMAIN scans[k].scanner.vulnerabilities :
                    LET va == scans[j].scanner.vulnerabilities[a]
                        vb == scans[k].scanner.vulnerabilities[b]
                    IN  va.package = vb.package /\ va.version = vb.version
                            => va.id = vb.id

\* C8: each response is a JSON-RPC 2.0 response with the integer id of its
\* request (0 without one); a known method gets a result and no error, any
\* other an error of code -32601 and no result.
C8_ResponseShape ==
    \A k \in DOMAIN stdout :
        k \in DOMAIN ParsedRequests =>
            /\ stdout[k].jsonrpc = "2.0"
            /\ stdout[k].id = ExpectedId(ParsedRequests[k])
            /\ IF ExpectedMethod(ParsedRequests[k]) \in KnownMethods
               THEN DOMAIN stdout[k] = {"jsonrpc", "id", "result"}
               ELSE /\ DOMAIN stdout[k] = {"jsonrpc", "id", "error"}
                    /\ stdout[k].error.code = -32601

C8_Witness ==
    /\ Len(stdout) = 2
    /\ ParsedRequests[1] = JInt(5)
    /\ stdout[1].id = 0
    /\ stdout[1].error.code = -32601
    /\ ExpectedMethod(ParsedRequests[2]) = "build.pre_hook"
    /\ stdout[2].id = 7
    /\ stdout[2].result.success

\* The responses printed are one per line that parsed, in the order of
\* those lines.
AnsweredInOrder ==
    /\ Len(stdout) = Len(ParsedRequests)
    /\ \A k \in DOMAIN stdout :
          /\ stdout[k].id = ExpectedId(ParsedRequests[k])
          /\ "error" \in DOMAIN stdout[k]
                <=> ExpectedMethod(ParsedRequests[k]) \notin KnownMethods
          /\ ExpectedMethod(ParsedRequests[k]) = "plugin.info"
                => stdout[k].result = plugin_info

\* C9: the responses printed are one per line that parsed, in the order of
\* those lines; a line that could not be read or parsed is answered by
\* nothing and the loop goes on to the next line; after the end of input
\* nothing more is read or printed.
C9_OneResponsePerParsedLine == []AnsweredInOrder /\ [][pc = "loop"]_vars

C9_Witness ==
    /\ pc = "done"
    /\ Len(stdin_read) = 2
    /\ stdin_read[1] = Line(None)
    /\ Len(ParsedRequests) = 1
    /\ ExpectedMethod(ParsedRequests[1]) = "plugin.info"
    /\ stdout = <<handle_info(1)>>

ScansOf(root) == {k \in DOMAIN scans : scans[k].scanner.workspace_root = root}
FindingScansOf(root) == {k \in ScansOf(root) : scans[k].scanner.vulnerabilities # <<>>}
Latest(S) == CHOOSE k \in S : \A j \in S : j <= k

Json(vs) == [kind |-> "json", vulnerabilities |-> vs]

=============================================================================
